---- MODULE Spec2Model ----
(***************************************************************************)
(* Model of egui-chinese-font (src/src/lib.rs): the platform font resolver *)
(* (load_chinese_font and its three per-platform scans), the registrar     *)
(* (setup_chinese_fonts, setup_custom_chinese_font) acting on an egui      *)
(* Context's font definitions, and the diagnostic accessor                 *)
(* get_chinese_font_paths.                                                 *)
(*                                                                         *)
(* The target operating system is fixed when the crate is compiled, so it  *)
(* is chosen once in Init.  The crate only reads the host filesystem, so   *)
(* the filesystem is chosen in Init as well and never changes.             *)
(*                                                                         *)
(* Spec explores the registrar's call histories over filesystems with few  *)
(* files; ResolverSpec explores the resolver over richer filesystems.      *)
(***************************************************************************)
EXTENDS Naturals, Integers, Sequences, FiniteSets, TLC

VARIABLES
    platform,   \* target_os the crate was compiled for
    fs,         \* the host filesystem: candidate path -> outcome of reading it
    ctx,        \* the egui Context's font definitions (what set_fonts stored)
    last,       \* record of the most recent public call
    prev        \* the call before it: operation, registered name, whether it succeeded

vars == <<platform, fs, ctx, last, prev>>

----------------------------------------------------------------------------
(* Bounds of the model *)

\* ResolverSpec: at most this many candidate paths are not absent files
MaxPresent == 3

\* Spec: at most this many candidate paths are not absent files
MaxPresentSetup == 1

----------------------------------------------------------------------------
(* Option<&str> and Result<T, E> *)

None == [some |-> FALSE, val |-> ""]
Some(s) == [some |-> TRUE, val |-> s]

unwrap_or(opt, dflt) == IF opt.some THEN opt.val ELSE dflt

NoError == [kind |-> "", msg |-> ""]
Unit == [font |-> <<>>, index |-> 0]

Ok(v) == [tag |-> "Ok", val |-> v, err |-> NoError]
Err(e) == [tag |-> "Err", val |-> Unit, err |-> e]

----------------------------------------------------------------------------
(* FontError, lib.rs 22-30 *)

NotFound(s) == [kind |-> "NotFound", msg |-> s]
ReadError(e) == [kind |-> "ReadError", msg |-> e]
UnsupportedPlatform == [kind |-> "UnsupportedPlatform", msg |-> ""]

----------------------------------------------------------------------------
(* egui's FontData and FontDefinitions, as far as this crate touches them *)

\* FontData::from_owned(bytes): the bytes, face index 0
from_owned(bytes) == [font |-> bytes, index |-> 0]

Proportional == "Proportional"
Monospace == "Monospace"

\* FontDefinitions::default(): egui's four built-in fonts and two families
FontDefinitions_default ==
    [font_data |->
        [n \in {"Hack", "Ubuntu-Light", "NotoEmoji-Regular", "emoji-icon-font"} |->
            CASE n = "Hack" -> from_owned(<<201>>)
              [] n = "Ubuntu-Light" -> from_owned(<<202>>)
              [] n = "NotoEmoji-Regular" -> from_owned(<<203>>)
              [] n = "emoji-icon-font" -> from_owned(<<204>>)],
     families |->
        [f \in {Proportional, Monospace} |->
            IF f = Monospace
            THEN <<"Hack", "Ubuntu-Light", "NotoEmoji-Regular", "emoji-icon-font">>
            ELSE <<"Ubuntu-Light", "NotoEmoji-Regular", "emoji-icon-font">>]]

\* BTreeMap::insert(key, value)
map_insert(m, k, v) == [x \in DOMAIN m \cup {k} |-> IF x = k THEN v ELSE m[x]]

\* Vec::insert(0, x)
insert0(v, x) == <<x>> \o v

\* fonts.families.entry(family).or_default().insert(0, name)
family_insert0(families, family, name) ==
    IF family \in DOMAIN families
    THEN [families EXCEPT ![family] = insert0(@, name)]
    ELSE map_insert(families, family, <<name>>)

----------------------------------------------------------------------------
(* Candidate path lists of the resolver *)

WindowsFontPaths ==
    << "C:\\Windows\\Fonts\\msyh.ttc",
       "C:\\Windows\\Fonts\\msyhbd.ttc",
       "C:\\Windows\\Fonts\\simsun.ttc",
       "C:\\Windows\\Fonts\\simhei.ttf",
       "C:\\Windows\\Fonts\\simkai.ttf",
       "C:\\Windows\\Fonts\\simfang.ttf",
       "C:\\Windows\\Fonts\\msjh.ttc",
       "C:\\Windows\\Fonts\\msjhbd.ttc",
       "C:\\Windows\\Fonts\\kaiu.ttf",
       "C:\\Windows\\Fonts\\mingliu.ttc" >>

MacosFontPaths ==
    << "/System/Library/Fonts/PingFang.ttc",
       "/System/Library/Fonts/STHeiti Light.ttc",
       "/System/Library/Fonts/STHeiti Medium.ttc",
       "/System/Library/Fonts/Hiragino Sans GB.ttc",
       "/Library/Fonts/Arial Unicode.ttf",
       "/System/Library/Fonts/Apple LiGothic Medium.ttf" >>

LinuxFontPaths ==
    << "/usr/share/fonts/truetype/droid/DroidSansFallbackFull.ttf",
       "/usr/share/fonts/truetype/arphic/uming.ttc",
       "/usr/share/fonts/truetype/arphic/ukai.ttc",
       "/usr/share/fonts/truetype/wqy/wqy-microhei.ttc",
       "/usr/share/fonts/truetype/wqy/wqy-zenhei.ttc",
       "/usr/share/fonts/opentype/noto/NotoSansCJK-Regular.ttc",
       "/usr/share/fonts/truetype/liberation/LiberationSans-Regular.ttf",
       "/usr/share/fonts/truetype/dejavu/DejaVuSans.ttf",
       "/usr/share/fonts/google-droid/DroidSansFallbackFull.ttf",
       "/usr/share/fonts/noto-cjk/NotoSansCJK-Regular.ttc" >>

----------------------------------------------------------------------------
(* The host filesystem: path -> outcome of reading the whole file *)

\* std::fs::read(path): the file's bytes, or the io error
fs_read(files, path) ==
    IF path \in DOMAIN files /\ files[path].ok
    THEN Ok(files[path].data)
    ELSE Err(IF path \in DOMAIN files THEN files[path].err ELSE "NotFound")

\* mutant of scan_from: the loop does not return at the first successful read,
\* so the last readable candidate wins and every candidate is read
RECURSIVE scan_from_last(_, _, _, _)
scan_from_last(font_paths, files, i, msg) ==
    IF i > Len(font_paths)
    THEN [result |-> Err(NotFound(msg)), reads |-> <<>>]
    ELSE LET r == fs_read(files, font_paths[i])
             rest == scan_from_last(font_paths, files, i + 1, msg) IN
         [result |-> IF rest.result.tag = "Ok" \/ r.tag = "Err"
                     THEN rest.result
                     ELSE Ok(from_owned(r.val)),
          reads |-> <<font_paths[i]>> \o rest.reads]

\* mutant of scan_from: a candidate that exists but cannot be read ends the scan
\* with ReadError instead of being skipped
RECURSIVE scan_from_strict(_, _, _, _)
scan_from_strict(font_paths, files, i, msg) ==
    IF i > Len(font_paths)
    THEN [result |-> Err(NotFound(msg)), reads |-> <<>>]
    ELSE LET r == fs_read(files, font_paths[i]) IN
         IF r.tag = "Ok"
         THEN [result |-> Ok(from_owned(r.val)), reads |-> <<font_paths[i]>>]
         ELSE IF r.err # "NotFound"
         THEN [result |-> Err(ReadError(r.err)), reads |-> <<font_paths[i]>>]
         ELSE LET rest == scan_from_strict(font_paths, files, i + 1, msg) IN
              [result |-> rest.result, reads |-> <<font_paths[i]>> \o rest.reads]

\* for font_path in &font_paths { if let Ok(d) = read(font_path) { return Ok(..) } }
\* Err(NotFound(msg)); also yields the reads performed, in order
RECURSIVE scan_from(_, _, _, _)
scan_from(font_paths, files, i, msg) ==
    IF i > Len(font_paths)
    THEN [result |-> Err(NotFound(msg)), reads |-> <<>>]
    ELSE LET r == fs_read(files, font_paths[i]) IN
         IF r.tag = "Ok"
         THEN [result |-> Ok(from_owned(r.val)), reads |-> <<font_paths[i]>>]
         ELSE LET rest == scan_from(font_paths, files, i + 1, msg) IN
              [result |-> rest.result, reads |-> <<font_paths[i]>> \o rest.reads]

load_windows_chinese_font(files) ==
    scan_from(WindowsFontPaths, files, 1, "No Chinese font found on Windows")

load_macos_chinese_font(files) ==
    scan_from(MacosFontPaths, files, 1, "No Chinese font found on macOS")

load_linux_chinese_font(files) ==
    scan_from(LinuxFontPaths, files, 1, "No Chinese font found on Linux")

\* mutant of load_chinese_font: an unrecognised target falls through to the
\* Linux scan
load_chinese_font_fallthrough(os, files) ==
    CASE os = "windows" -> load_windows_chinese_font(files)
      [] os = "macos" -> load_macos_chinese_font(files)
      [] OTHER -> load_linux_chinese_font(files)

\* the cfg(target_os) dispatch
load_chinese_font(os, files) ==
    CASE os = "windows" -> load_windows_chinese_font(files)
      [] os = "macos" -> load_macos_chinese_font(files)
      [] os = "linux" -> load_linux_chinese_font(files)
      [] OTHER -> [result |-> Err(UnsupportedPlatform), reads |-> <<>>]

get_chinese_font_paths(os) ==
    CASE os = "windows" ->
            << "C:\\Windows\\Fonts\\msyh.ttc",
               "C:\\Windows\\Fonts\\msyhbd.ttc",
               "C:\\Windows\\Fonts\\simsun.ttc",
               "C:\\Windows\\Fonts\\simhei.ttf",
               "C:\\Windows\\Fonts\\simkai.ttf",
               "C:\\Windows\\Fonts\\simfang.ttf",
               "C:\\Windows\\Fonts\\msjh.ttc",
               "C:\\Windows\\Fonts\\msjhbd.ttc" >>
      [] os = "macos" ->
            << "/System/Library/Fonts/PingFang.ttc",
               "/System/Library/Fonts/STHeiti Light.ttc",
               "/System/Library/Fonts/STHeiti Medium.ttc",
               "/System/Library/Fonts/Hiragino Sans GB.ttc",
               "/Library/Fonts/Arial Unicode.ttf" >>
      [] os = "linux" ->
            << "/usr/share/fonts/truetype/droid/DroidSansFallbackFull.ttf",
               "/usr/share/fonts/truetype/arphic/uming.ttc",
               "/usr/share/fonts/truetype/wqy/wqy-microhei.ttc",
               "/usr/share/fonts/opentype/noto/NotoSansCJK-Regular.ttc" >>
      [] OTHER -> <<>>

----------------------------------------------------------------------------
(* The registrar *)

\* mutant of build_fonts: the name is put in the Proportional family only
build_fonts_proportional_only(name, data) ==
    LET fonts0 == FontDefinitions_default
        fonts1 == [fonts0 EXCEPT !.font_data = map_insert(@, name, data)]
    IN  [fonts1 EXCEPT !.families = family_insert0(@, Proportional, name)]

\* mutant of build_fonts: the update starts from the context's current
\* definitions instead of FontDefinitions::default()
build_fonts_from_ctx(name, data) ==
    LET fonts1 == [ctx EXCEPT !.font_data = map_insert(@, name, data)]
        fonts2 == [fonts1 EXCEPT !.families = family_insert0(@, Proportional, name)]
    IN  [fonts2 EXCEPT !.families = family_insert0(@, Monospace, name)]

\* the FontDefinitions both setup functions hand to ctx.set_fonts
build_fonts(name, data) ==
    LET fonts0 == FontDefinitions_default
        fonts1 == [fonts0 EXCEPT !.font_data = map_insert(@, name, data)]
        fonts2 == [fonts1 EXCEPT !.families = family_insert0(@, Proportional, name)]
    IN  [fonts2 EXCEPT !.families = family_insert0(@, Monospace, name)]

\* ctx.set_fonts(fonts): the context's definitions are replaced whole
set_fonts(c, fonts) == fonts

\* mutant of setup_chinese_fonts: set_fonts is called with the fresh defaults
\* before the font is loaded, so a failed load has already replaced the context
setup_chinese_fonts_eager(c, os, files) ==
    LET loaded == load_chinese_font(os, files) IN
    IF loaded.result.tag = "Err"
    THEN [result |-> Err(loaded.result.err),
          ctx |-> set_fonts(c, FontDefinitions_default),
          loaded |-> loaded.result, reads |-> loaded.reads]
    ELSE [result |-> Ok(Unit),
          ctx |-> set_fonts(c, build_fonts("chinese", loaded.result.val)),
          loaded |-> loaded.result, reads |-> loaded.reads]

\* setup_chinese_fonts(ctx) against a filesystem: what it returns, the context
\* afterwards, and what load_chinese_font returned and read on the way
setup_chinese_fonts(c, os, files) ==
    LET loaded == load_chinese_font(os, files) IN
    IF loaded.result.tag = "Err"
    THEN [result |-> Err(loaded.result.err), ctx |-> c,
          loaded |-> loaded.result, reads |-> loaded.reads]
    ELSE [result |-> Ok(Unit),
          ctx |-> set_fonts(c, build_fonts("chinese", loaded.result.val)),
          loaded |-> loaded.result, reads |-> loaded.reads]

\* setup_custom_chinese_font(ctx, font_data, font_name): new ctx
setup_custom_chinese_font(c, font_data, font_name) ==
    LET name == unwrap_or(font_name, "chinese") IN
    set_fonts(c, build_fonts(name, from_owned(font_data)))

---------------------------------------------------------------------------------------------------------------------------------------------------
(* Inputs *)

Platforms == {"windows", "macos", "linux", "other"}
Supported == {"windows", "macos", "linux"}

\* the candidate list the resolver of a platform scans
ResolverPaths(os) ==
    CASE os = "windows" -> WindowsFontPaths
      [] os = "macos" -> MacosFontPaths
      [] os = "linux" -> LinuxFontPaths
      [] OTHER -> <<>>

Range(s) == {s[i] : i \in 1..Len(s)}
IndexOf(s, x) == CHOOSE i \in 1..Len(s) : s[i] = x

Absent == [ok |-> FALSE, err |-> "NotFound", data |-> <<>>]
Denied == [ok |-> FALSE, err |-> "PermissionDenied", data |-> <<>>]
File(bytes) == [ok |-> TRUE, err |-> "", data |-> bytes]

\* the content of the font file installed at a candidate path, when there is one
Content(os, p) == <<100 + IndexOf(ResolverPaths(os), p)>>

\* what a path that is not absent can be: unreadable, a zero-length file,
\* or the font file
PresentStates(os, p) == { Denied, File(<<>>), File(Content(os, p)) }

\* the filesystems in which at most n candidate paths are not absent
FsStates(os, n) ==
    LET P == Range(ResolverPaths(os)) IN
    UNION { { [p \in P |-> IF p \in S THEN g[p] ELSE Absent] :
                g \in { h \in [S -> UNION {PresentStates(os, q) : q \in S}] :
                          \A q \in S : h[q] \in PresentStates(os, q) } } :
            S \in { T \in SUBSET P : Cardinality(T) <= n } }

CustomBytes == { <<1, 2>>, <<3>> }
CustomNames == { None, Some("foo"), Some("Hack") }

----------------------------------------------------------------------------
(* State machine *)

NoCall ==
    [op |-> "none", name |-> "", bytes |-> <<>>,
     result |-> Ok(Unit), loaded |-> Ok(Unit), reads |-> <<>>,
     before |-> FontDefinitions_default, paths |-> <<>>]

InitWith(n) ==
    /\ platform \in Platforms
    /\ fs \in FsStates(platform, n)
    /\ ctx = FontDefinitions_default
    /\ last = NoCall
    /\ prev = [op |-> "none", name |-> "", ok |-> TRUE]

Init == InitWith(MaxPresentSetup)

SetupChineseFonts ==
    LET r == setup_chinese_fonts(ctx, platform, fs) IN
    /\ ctx' = r.ctx
    /\ last' = [op |-> "setup_chinese_fonts", name |-> "chinese", bytes |-> <<>>,
                result |-> r.result,
                loaded |-> r.loaded,
                reads |-> r.reads, before |-> ctx, paths |-> <<>>]
    /\ prev' = [op |-> last.op, name |-> last.name, ok |-> last.result.tag = "Ok"]
    /\ UNCHANGED <<platform, fs>>

SetupCustomChineseFont ==
    \E font_data \in CustomBytes, font_name \in CustomNames :
        /\ ctx' = setup_custom_chinese_font(ctx, font_data, font_name)
        /\ last' = [op |-> "setup_custom_chinese_font",
                    name |-> unwrap_or(font_name, "chinese"), bytes |-> font_data,
                    result |-> Ok(Unit), loaded |-> Ok(Unit),
                    reads |-> <<>>, before |-> ctx, paths |-> <<>>]
        /\ prev' = [op |-> last.op, name |-> last.name, ok |-> last.result.tag = "Ok"]
        /\ UNCHANGED <<platform, fs>>

GetChineseFontPaths ==
    /\ last' = [op |-> "get_chinese_font_paths", name |-> "", bytes |-> <<>>,
                result |-> Ok(Unit), loaded |-> Ok(Unit),
                reads |-> <<>>, before |-> ctx,
                paths |-> get_chinese_font_paths(platform)]
    /\ prev' = [op |-> last.op, name |-> last.name, ok |-> last.result.tag = "Ok"]
    /\ UNCHANGED <<platform, fs, ctx>>

Next ==
    \/ SetupChineseFonts
    \/ SetupCustomChineseFont
    \/ GetChineseFontPaths

Spec == Init /\ [][Next]_vars

\* the resolver and the accessor alone, over richer filesystems
ResolverInit == InitWith(MaxPresent)

ResolverNext ==
    \/ SetupChineseFonts
    \/ GetChineseFontPaths

ResolverSpec == ResolverInit /\ [][ResolverNext]_vars

----------------------------------------------------------------------------
(* Vocabulary of the properties *)

Families == {Proportional, Monospace}
SetupOps == {"setup_chinese_fonts", "setup_custom_chinese_font"}

Candidates == ResolverPaths(platform)

\* indices of the candidates whose read succeeds on this filesystem
Readable == { i \in 1..Len(Candidates) : fs[Candidates[i]].ok }

Min(S) == CHOOSE x \in S : \A y \in S : x <= y

\* a occurs in b as a subsequence (same elements, same relative order)
RECURSIVE IsSubseq(_, _)
IsSubseq(a, b) ==
    IF a = <<>> THEN TRUE
    ELSE IF b = <<>> THEN FALSE
    ELSE IF Head(a) = Head(b) THEN IsSubseq(Tail(a), Tail(b))
    ELSE IsSubseq(a, Tail(b))

\* name is at index 0 of family f of definitions c
AtTop(c, f, name) ==
    /\ f \in DOMAIN c.families
    /\ Len(c.families[f]) >= 1
    /\ c.families[f][1] = name

DefaultKeys == DOMAIN FontDefinitions_default.font_data

\* c is egui's default definitions plus the one font (name, data), name first
\* in both families
IsDefaultPlus(c, name, data) ==
    /\ DOMAIN c.font_data = DefaultKeys \cup {name}
    /\ c.font_data[name] = data
    /\ \A k \in DefaultKeys \ {name} :
          c.font_data[k] = FontDefinitions_default.font_data[k]
    /\ DOMAIN c.families = Families
    /\ \A f \in Families :
          c.families[f] = <<name>> \o FontDefinitions_default.families[f]

\* the FontData the most recent setup call registered
RegisteredData ==
    IF last.op = "setup_custom_chinese_font"
    THEN from_owned(last.bytes)
    ELSE last.loaded.val

----------------------------------------------------------------------------
(* Properties *)

\* C1: on windows, macos and linux, get_chinese_font_paths() returns a
\* non-empty list equal, element for element and in order, to the candidate
\* list the platform's resolver scans.
C1_PathsEqualResolverList ==
    (last.op = "get_chinese_font_paths" /\ platform \in Supported) =>
        /\ last.paths # <<>>
        /\ last.paths = ResolverPaths(platform)

\* C2: after setup_custom_chinese_font(ctx, bytes, name), whatever the prior
\* configuration: the chosen name maps to exactly bytes, it is at index 0 of
\* both families, and every name that was in a family list before is still
\* there at an index >= 1, in its previous relative order.
C2_CustomKeepsPriorNames ==
    last.op = "setup_custom_chinese_font" =>
        /\ last.name \in DOMAIN ctx.font_data
        /\ ctx.font_data[last.name].font = last.bytes
        /\ \A f \in Families :
              /\ AtTop(ctx, f, last.name)
              /\ IsSubseq(last.before.families[f], Tail(ctx.families[f]))

\* C3: two calls of setup_custom_chinese_font with different names n1 then n2
\* leave both names in the font-data map and in both family lists, n2 at
\* index 0 and n1 at index 1.
C3_TwoCustomCallsKeepBoth ==
    ( /\ last.op = "setup_custom_chinese_font"
      /\ prev.op = "setup_custom_chinese_font"
      /\ prev.name # last.name ) =>
        /\ {prev.name, last.name} \subseteq DOMAIN ctx.font_data
        /\ \A f \in Families :
              /\ Len(ctx.families[f]) >= 2
              /\ ctx.families[f][1] = last.name
              /\ ctx.families[f][2] = prev.name

\* C4: on a supported platform with at least one readable candidate, the
\* resolver returns exactly the bytes of the lowest-index readable candidate,
\* reads every candidate up to it and none after it, and the unreadable
\* candidates before it produce no error.
C4_FirstReadableWins ==
    ( /\ last.op = "setup_chinese_fonts"
      /\ platform \in Supported
      /\ Readable # {} ) =>
        LET k == Min(Readable) IN
        /\ last.loaded.tag = "Ok"
        /\ last.loaded.val.font = fs[Candidates[k]].data
        /\ last.reads = SubSeq(Candidates, 1, k)
        /\ last.result.tag = "Ok"

\* C4 witness: the first candidate fails, two later ones are readable with
\* different contents, and the resolver returned the earlier of the two.
C4_Witness ==
    /\ last.op = "setup_chinese_fonts"
    /\ platform \in Supported
    /\ \E j \in Readable, k \in Readable :
          /\ 1 < j /\ j < k
          /\ j = Min(Readable)
          /\ fs[Candidates[j]].data # fs[Candidates[k]].data
          /\ last.loaded.tag = "Ok"
          /\ last.loaded.val.font = fs[Candidates[j]].data
          /\ Len(last.reads) = j

\* C5: on a supported platform the resolver fails exactly when the read of
\* every candidate fails, whatever the cause; the failure is then NotFound,
\* and neither the resolver nor setup_chinese_fonts ever returns ReadError or
\* UnsupportedPlatform.
C5_FailsOnlyWithNotFound ==
    ( /\ last.op = "setup_chinese_fonts"
      /\ platform \in Supported ) =>
        /\ (last.loaded.tag = "Err") <=> (Readable = {})
        /\ last.loaded.tag = "Err" => last.loaded.err.kind = "NotFound"
        /\ last.result.tag = "Err" => last.result.err.kind = "NotFound"
        /\ (last.result.tag = "Err") <=> (last.loaded.tag = "Err")

\* C5 witness: every candidate fails, one of them with a permission error
\* rather than absence, and the call failed with NotFound.
C5_Witness ==
    /\ last.op = "setup_chinese_fonts"
    /\ platform \in Supported
    /\ Readable = {}
    /\ \E i \in 1..Len(Candidates) : fs[Candidates[i]].err = "PermissionDenied"
    /\ last.result.tag = "Err"
    /\ last.result.err.kind = "NotFound"
    /\ Len(last.reads) = Len(Candidates)

\* C6: when setup_chinese_fonts returns an error, it is the resolver's error
\* unchanged and the context's font configuration is what it was before the
\* call.
C6_FailureLeavesContext ==
    ( /\ last.op = "setup_chinese_fonts"
      /\ last.result.tag = "Err" ) =>
        /\ last.loaded.tag = "Err"
        /\ last.result.err = last.loaded.err
        /\ ctx = last.before

\* C6 witness: setup_chinese_fonts failed on a context that an earlier call
\* had configured with a custom font.
C6_Witness ==
    /\ last.op = "setup_chinese_fonts"
    /\ last.result.tag = "Err"
    /\ prev.op = "setup_custom_chinese_font"
    /\ last.before # FontDefinitions_default
    /\ ctx = last.before

\* C7: on a platform outside windows, macos and linux the resolver fails with
\* UnsupportedPlatform without reading any file, and
\* get_chinese_font_paths() returns the empty list.
C7_UnsupportedPlatform ==
    platform \notin Supported =>
        /\ last.op = "setup_chinese_fonts" =>
              /\ last.loaded = Err(UnsupportedPlatform)
              /\ last.result = Err(UnsupportedPlatform)
              /\ last.reads = <<>>
        /\ last.op = "get_chinese_font_paths" => last.paths = <<>>

\* C7 witness: on an unsupported platform setup_chinese_fonts has failed and
\* get_chinese_font_paths has then returned the empty list.
C7_Witness ==
    /\ platform \notin Supported
    /\ prev.op = "setup_chinese_fonts"
    /\ ~prev.ok
    /\ last.op = "get_chinese_font_paths"
    /\ last.paths = <<>>

\* C8: whenever the resolver returns Ok, the returned font bytes are not
\* empty, also when a candidate is a readable file of length zero.
C8_ResolvedBytesNonEmpty ==
    ( /\ last.op = "setup_chinese_fonts"
      /\ last.loaded.tag = "Ok" ) =>
        Len(last.loaded.val.font) > 0

\* C9: the context never holds a partly applied registration: after a
\* successful setup call the registered name is in the font-data map and at
\* index 0 of both families, and in every state the context is either egui's
\* defaults or has one name of its font-data map at index 0 of both families;
\* a name outside the defaults is never in the map without being at index 0
\* of both.
C9_RegistrationIsWhole ==
    /\ (last.op \in SetupOps /\ last.result.tag = "Ok") =>
          /\ last.name \in DOMAIN ctx.font_data
          /\ \A f \in Families : AtTop(ctx, f, last.name)
    /\ \A n \in DOMAIN ctx.font_data \ DefaultKeys :
          \A f \in Families : AtTop(ctx, f, n)
    /\ \/ ctx = FontDefinitions_default
       \/ \E n \in DOMAIN ctx.font_data : \A f \in Families : AtTop(ctx, f, n)

\* C9 witness: a custom registration of "foo" replaced a configuration that
\* setup_chinese_fonts had installed.
C9_Witness ==
    /\ last.op = "setup_custom_chinese_font"
    /\ last.name = "foo"
    /\ "chinese" \in DOMAIN last.before.font_data
    /\ \A f \in Families : AtTop(ctx, f, "foo")

\* C10: after any sequence of successful setup calls the context's font
\* configuration is egui's default definitions plus exactly the name and
\* bytes of the last successful call, whatever the configuration was before.
C10_OnlyLastCallCounts ==
    /\ (last.op \in SetupOps /\ last.result.tag = "Ok") =>
          IsDefaultPlus(ctx, last.name, RegisteredData)
    /\ \/ ctx = FontDefinitions_default
       \/ \E n \in DOMAIN ctx.font_data :
             IsDefaultPlus(ctx, n, ctx.font_data[n])

\* C10 witness: a successful setup_chinese_fonts followed a custom
\* registration of another name, of which nothing is left.
C10_Witness ==
    /\ last.op = "setup_chinese_fonts"
    /\ last.result.tag = "Ok"
    /\ prev.op = "setup_custom_chinese_font"
    /\ prev.name = "foo"
    /\ "foo" \in DOMAIN last.before.font_data
    /\ "foo" \notin DOMAIN ctx.font_data

====
